---- MODULE Spec2Model ----
(***************************************************************************)
(* SimOTAAssigner (mmdet/core/bbox/assigners/sim_ota_assigner.py): the     *)
(* label assignment of one image, as a state machine.                      *)
(*                                                                         *)
(* Tensors are sequences (rows) of sequences; a boolean mask is a sequence *)
(* of booleans.  Coordinates are integers; the two places where the code   *)
(* halves a coordinate (the box centre) or multiplies by center_radius =   *)
(* 2.5 are computed on doubled values, so no fraction is lost.  IoUs are   *)
(* in thousandths, costs in tenths.                                        *)
(*                                                                         *)
(* A second part models a training run with the two hooks of               *)
(* mmdet/core/hook: CosineAnnealingWithStopLrUpdaterHook.get_lr and        *)
(* YOLOXProcessHook.before_train_epoch.                                    *)
(***************************************************************************)
EXTENDS Integers, Sequences, FiniteSets

VARIABLES
    \* the caller's arguments and the assigner's configuration
    pred_scores, priors, decoded_bboxes, gt_bboxes, gt_labels,
    center_radius2, candidate_topk,
    \* SimOTAAssigner.assign
    pc, attempt, device, cache_released, exc, outcome, result,
    \* locals of _assign and dynamic_k_matching
    valid_mask, is_in_boxes_and_center, pair_wise_ious, cls_cost,
    cost_matrix, dynamic_ks, matching_matrix, gt_idx,
    \* the runner of a training run: runner.epoch, runner.iter,
    \* runner.max_epochs, len(runner.data_loader), what it does next
    epoch, iter, max_epochs, loader_len, hpc,
    \* the hooks' configuration: no_aug_epoch (the same in both hooks),
    \* by_epoch, warmup_iters
    no_aug_epoch, by_epoch, warmup_iters,
    \* the last value of get_lr
    lr,
    \* dataset.enable_mosaic, dataset.enable_mixup, bbox_head.use_l1
    enable_mosaic, enable_mixup, use_l1

inputs == <<pred_scores, priors, decoded_bboxes, gt_bboxes, gt_labels,
            center_radius2, candidate_topk>>
control == <<pc, attempt, device, cache_released, exc, outcome, result>>
locals == <<valid_mask, is_in_boxes_and_center, pair_wise_ious, cls_cost,
            cost_matrix, dynamic_ks, matching_matrix, gt_idx>>
runner == <<epoch, iter, max_epochs, loader_len, hpc>>
hook_config == <<no_aug_epoch, by_epoch, warmup_iters>>
flags == <<enable_mosaic, enable_mixup, use_l1>>
training == <<runner, hook_config, lr, flags>>
vars == <<inputs, control, locals, training>>

----------------------------------------------------------------------------
(* Bounds of the model *)

\* most priors of one image (N)
MaxPriors == 3
\* Spec: most ground truths of one image (M), most (prior, ground truth)
\* pairs
MaxGts == 1
MaxPairs == 3
\* candidate_topk is drawn from 1..MaxTopk and the default
MaxTopk == 2
\* SpecMatch: most valid priors, most ground truths (also in SpecFilter),
\* most matrix entries, most priors outside the valid mask
MaxValid == 3
MaxCols == 3
MaxCells == 6
MaxInvalid == 1
\* SpecTrain: most epochs of a run, most iterations of an epoch, largest
\* no_aug_epoch
MaxEpochs == 4
MaxLoaderLen == 2
MaxNoAug == 2
\* largest warmup_iters
MaxWarmup == 1

(* Program constants *)

\* INF = 100000000
INF == 100000000
\* candidate_topk=10
DefaultTopk == 10
\* center_radius=2.5, doubled
DefaultRadius2 == 5

Classes == {0, 1, 2}
NumClasses == Cardinality(Classes)

----------------------------------------------------------------------------
(* Helpers on sequences *)

RECURSIVE SumSeq(_)
SumSeq(s) == IF s = << >> THEN 0 ELSE Head(s) + SumSeq(Tail(s))

RECURSIVE CountTrue(_)
CountTrue(m) == IF m = << >> THEN 0
                ELSE (IF Head(m) THEN 1 ELSE 0) + CountTrue(Tail(m))

\* t[mask]: the rows of t at the true positions of mask, in order
RECURSIVE MaskSelect(_, _)
MaskSelect(t, mask) ==
    IF mask = << >> THEN << >>
    ELSE (IF Head(mask) THEN <<Head(t)>> ELSE << >>)
         \o MaskSelect(Tail(t), Tail(mask))

\* the row of the masked tensor that position i of mask goes to
Rank(mask, i) == CountTrue(SubSeq(mask, 1, i))

Min4(a, b, c, d) ==
    LET m1 == IF a < b THEN a ELSE b
        m2 == IF c < d THEN c ELSE d
    IN  IF m1 < m2 THEN m1 ELSE m2

----------------------------------------------------------------------------
(* get_in_gt_and_in_center_info *)

\* mutant: a prior on an edge of the box counts as inside
IsInGtOrOnEdge(p, g) ==
    Min4(2 * (p[1] - g[1]), 2 * (p[2] - g[2]),
         2 * (g[3] - p[1]), 2 * (g[4] - p[2])) >= 0

\* deltas.min(dim=1).values > 0 for prior p and box g (doubled margins)
IsInGt(p, g) ==
    Min4(2 * (p[1] - g[1]), 2 * (p[2] - g[2]),
         2 * (g[3] - p[1]), 2 * (g[4] - p[2])) > 0

\* ct_deltas.min(dim=1).values > 0: the box of half-size
\* center_radius * stride around the centre of g (doubled margins)
IsInCt(p, g, r2) ==
    LET cx2 == g[1] + g[3]
        cy2 == g[2] + g[4]
    IN  Min4(2 * p[1] - (cx2 - r2 * p[3]), 2 * p[2] - (cy2 - r2 * p[4]),
             (cx2 + r2 * p[3]) - 2 * p[1], (cy2 + r2 * p[4]) - 2 * p[2]) > 0

IsInGtsOrCenters(ps, gs, r2) ==
    [i \in 1..Len(ps) |->
        (\E j \in 1..Len(gs) : IsInGt(ps[i], gs[j]))
        \/ (\E j \in 1..Len(gs) : IsInCt(ps[i], gs[j], r2))]

IsInBoxesAndCenters(ps, gs, r2) ==
    MaskSelect([i \in 1..Len(ps) |->
                   [j \in 1..Len(gs) |->
                       IsInGt(ps[i], gs[j]) /\ IsInCt(ps[i], gs[j], r2)]],
               IsInGtsOrCenters(ps, gs, r2))

----------------------------------------------------------------------------
(* _assign: the cost of a (valid prior, ground truth) pair *)

\* IoU values bbox_overlaps returns in the model, in thousandths
IouValues == {500, 1000}

\* -torch.log(iou + eps), in tenths: -ln(0.5) and -ln(1)
IouCost(iou) == IF iou = 500 THEN 7 ELSE 0

\* what sqrt_ leaves in place of a negative element: a value that is not a
\* number, and so not in [0, 1]
NaN == -1

\* Tensor.sqrt_ on a class score in thousandths
SqrtScore(s) ==
    CASE s < 0 -> NaN
      [] s = 0 -> 0
      [] s = 250 -> 500
      [] OTHER -> 1000

\* F.binary_cross_entropy(p, t, reduction='none') of one element, in
\* tenths; torch clamps each logarithm at -100
BinaryCrossEntropy(p, t) ==
    CASE p = 500 -> 7
      [] p = 0 -> (IF t = 1 THEN 1000 ELSE 0)
      [] OTHER -> (IF t = 1 THEN 0 ELSE 1000)

\* mutant: the square root is taken in the rows of pred_scores themselves
SqrtThroughView(scores, mask) ==
    [i \in 1..Len(scores) |->
        IF i <= Len(mask) /\ mask[i]
        THEN [k \in 1..Len(scores[i]) |-> SqrtScore(scores[i][k])]
        ELSE scores[i]]

\* pred_scores after valid_pred_scores.sqrt_(): the rows under the mask
\* were copied by pred_scores[valid_mask] and again by repeat, so the root
\* is taken in the copy and the argument keeps its values
ScoresAfterSqrt(scores, mask) == scores

\* binary_cross_entropy requires every input element to be in [0, 1] and
\* raises a RuntimeError otherwise
BceInputOk(scores) ==
    \A k \in 1..NumClasses :
        SqrtScore(scores[k]) >= 0 /\ SqrtScore(scores[k]) <= 1000

\* F.one_hot(gt_labels, num_classes)[label][c]
OneHot(label, c) == IF c = label THEN 1 ELSE 0

\* binary_cross_entropy(valid_pred_scores.sqrt_(), gt_onehot_label).sum(-1)
\* for one prior's score row and one ground-truth label
ClsCost(scores, label) ==
    SumSeq([k \in 1..NumClasses |->
               BinaryCrossEntropy(SqrtScore(scores[k]), OneHot(label, k - 1))])

\* a float32 holds 24 bits: from 2^26 on (in tenths, 671088640) a sum is
\* rounded to a multiple of 8 (80 tenths)
Float32(x) == IF x >= 671088640 THEN ((x + 40) \div 80) * 80 ELSE x

\* mutant: the INF term is left out
CostWithoutInf(cls, iou, both) == Float32(cls + 3 * IouCost(iou))

\* cls_cost + 3.0 * iou_cost + INF * (~is_in_boxes_and_center), in tenths
Cost(cls, iou, both) ==
    Float32(cls + 3 * IouCost(iou) + (IF both THEN 0 ELSE INF * 10))

CostMatrix(cls, ious, both) ==
    [i \in 1..Len(cls) |->
        [j \in 1..Len(cls[i]) |-> Cost(cls[i][j], ious[i][j], both[i][j])]]

----------------------------------------------------------------------------
(* dynamic_k_matching *)

Column(m, j) == [i \in 1..Len(m) |-> m[i][j]]

MaxOf(s) == CHOOSE x \in {s[i] : i \in 1..Len(s)} :
                \A i \in 1..Len(s) : s[i] <= x

RemoveAt(s, i) == SubSeq(s, 1, i - 1) \o SubSeq(s, i + 1, Len(s))

\* the sum of the k largest entries of s (k <= Len(s))
RECURSIVE TopkSum(_, _)
TopkSum(s, k) ==
    IF k = 0 THEN 0
    ELSE LET i == CHOOSE i \in 1..Len(s) : s[i] = MaxOf(s)
         IN  s[i] + TopkSum(RemoveAt(s, i), k - 1)

\* torch.clamp(topk_ious.sum(0).int(), min=1) for one column: the sum is
\* in thousandths, int() truncates
DynamicK(col, topk) ==
    LET k == TopkSum(col, topk) \div 1000
    IN  IF k < 1 THEN 1 ELSE k

DynamicKs(ious, num_gt, topk) ==
    [j \in 1..num_gt |-> DynamicK(Column(ious, j), topk)]

\* torch.topk(cost[:, gt_idx], k, largest=False): every set of k rows none
\* of which costs more than a row left out; equal costs may fall either way
TopkSmallest(col, k) ==
    {S \in SUBSET (1..Len(col)) :
        /\ Cardinality(S) = k
        /\ \A i \in S : \A r \in (1..Len(col)) \ S : col[i] <= col[r]}

\* matching_matrix[:, gt_idx][pos_idx] = 1.0
SetColumn(m, j, S) ==
    [i \in 1..Len(m) |->
        [c \in 1..Len(m[i]) |-> IF c = j /\ i \in S THEN 1 ELSE m[i][c]]]

RowSum(m, i) == SumSeq(m[i])

\* mutant: every matched prior counts as being in conflict
PriorMatchedMask(m) == {i \in 1..Len(m) : RowSum(m, i) > 0}

\* prior_match_gt_mask = matching_matrix.sum(1) > 1
PriorMatchGtMask(m) == {i \in 1..Len(m) : RowSum(m, i) > 1}

\* mutant: torch.max in place of torch.min
ArgMaxCost(row) ==
    {j \in 1..Len(row) : \A c \in 1..Len(row) : row[j] >= row[c]}

\* torch.min(cost[row, :], dim=1): a column of least cost in the row
ArgMins(row) == {j \in 1..Len(row) : \A c \in 1..Len(row) : row[j] <= row[c]}

\* mutant: the rows in conflict are not cleared first
ResolveWithoutClearing(m, argmin) ==
    [i \in 1..Len(m) |->
        IF i \in DOMAIN argmin
        THEN [c \in 1..Len(m[i]) |-> IF c = argmin[i] THEN 1 ELSE m[i][c]]
        ELSE m[i]]

\* matching_matrix[mask, :] *= 0.0; matching_matrix[mask, cost_argmin] = 1.0
Resolve(m, argmin) ==
    [i \in 1..Len(m) |->
        IF i \in DOMAIN argmin
        THEN [c \in 1..Len(m[i]) |-> IF c = argmin[i] THEN 1 ELSE 0]
        ELSE m[i]]

\* fg_mask_inboxes = matching_matrix.sum(1) > 0.0
FgMaskInboxes(m) == [i \in 1..Len(m) |-> RowSum(m, i) > 0]

\* mutant: fg_mask[:num_valid] = fg_mask_inboxes
NarrowMaskPrefix(fg_mask, inboxes) ==
    [i \in 1..Len(fg_mask) |->
        IF i <= Len(inboxes) THEN inboxes[i] ELSE FALSE]

\* fg_mask[fg_mask.clone()] = fg_mask_inboxes
NarrowMask(fg_mask, inboxes) ==
    [i \in 1..Len(fg_mask) |->
        IF fg_mask[i] THEN inboxes[Rank(fg_mask, i)] ELSE FALSE]

\* matching_matrix[row, :].argmax(), columns counted from 1
ArgMax(row) == CHOOSE j \in 1..Len(row) :
                  /\ row[j] = MaxOf(row)
                  /\ \A c \in 1..(j - 1) : row[c] < row[j]

MatchedGtInds(m) == MaskSelect([i \in 1..Len(m) |-> ArgMax(m[i])],
                               FgMaskInboxes(m))

\* (matching_matrix * pair_wise_ious).sum(1)[fg_mask_inboxes]
PredIousThisMatching(m, ious) ==
    MaskSelect([i \in 1..Len(m) |->
                   SumSeq([j \in 1..Len(m[i]) |-> m[i][j] * ious[i][j]])],
               FgMaskInboxes(m))

----------------------------------------------------------------------------
(* The inputs the model draws *)

\* [cx, cy, stride_w, stride_h] of a prior and its row of class scores
PriorKinds ==
    << [p |-> <<20, 20, 8, 8>>,     s |-> <<0, 0, 1000>>],
       [p |-> <<30, 30, 8, 8>>,     s |-> <<250, 250, 250>>],
       [p |-> <<100, 100, 8, 8>>,   s |-> <<0, 0, 1000>>],
       [p |-> <<10, 30, 8, 8>>,     s |-> <<250, 250, 250>>],
       [p |-> <<100, 100, 32, 32>>, s |-> <<0, 1000, 0>>],
       [p |-> <<22, 22, 8, 8>>,     s |-> <<-1, 0, 1000>>] >>

\* [tl_x, tl_y, br_x, br_y] of a ground truth and its label
GtKinds ==
    << [b |-> <<10, 10, 50, 50>>,   l |-> 2],
       [b |-> <<0, 0, 90, 90>>,     l |-> 1],
       [b |-> <<26, 26, 34, 34>>,   l |-> 0] >>

\* the sequences over 1..n of length at most max that never decrease: one
\* for each multiset, since no step depends on the order of the priors or
\* of the ground truths
NonDecreasing(n, max) ==
    UNION {{q \in [1..len -> 1..n] :
               \A i \in 1..(len - 1) : q[i] <= q[i + 1]} : len \in 0..max}

TopkChoices == (1..MaxTopk) \cup {DefaultTopk}

\* origin_device = pred_scores.device
OriginDevice == "cuda"

NoResult == [gt_matched_classes |-> << >>, valid_mask |-> << >>,
             pred_ious_this_matching |-> << >>, matched_gt_inds |-> << >>,
             num_fg |-> 0, device |-> "none"]

ControlInit ==
    /\ device = OriginDevice
    /\ cache_released = FALSE
    /\ exc = << >>
    /\ outcome = "none"
    /\ result = NoResult

LocalsInit ==
    /\ valid_mask = << >>
    /\ is_in_boxes_and_center = << >>
    /\ pair_wise_ious = << >>
    /\ cls_cost = << >>
    /\ cost_matrix = << >>
    /\ dynamic_ks = << >>
    /\ matching_matrix = << >>
    /\ gt_idx = 0

\* get_lr has not returned yet
NoLr == [kind |-> "none", num |-> 0, den |-> 1]

\* no training run: the assigner is called on its own
TrainingIdle ==
    /\ epoch = 0
    /\ iter = 0
    /\ max_epochs = 0
    /\ loader_len = 0
    /\ hpc = "idle"
    /\ no_aug_epoch = 0
    /\ by_epoch = TRUE
    /\ warmup_iters = 0
    /\ lr = NoLr
    /\ enable_mosaic = TRUE
    /\ enable_mixup = TRUE
    /\ use_l1 = FALSE

\* A call of assign: the priors and ground truths of one image; pred_scores
\* has one row per prior, or one row too many (a shape mismatch)
Init ==
    /\ \E ps \in NonDecreasing(Len(PriorKinds), MaxPriors),
          gs \in NonDecreasing(Len(GtKinds), MaxGts),
          extra \in BOOLEAN :
        /\ Len(ps) * Len(gs) <= MaxPairs
        /\ priors = [i \in 1..Len(ps) |-> PriorKinds[ps[i]].p]
        /\ pred_scores = [i \in 1..Len(ps) |-> PriorKinds[ps[i]].s]
                         \o (IF extra THEN <<PriorKinds[1].s>> ELSE << >>)
        /\ decoded_bboxes = [i \in 1..Len(ps) |-> i]
        /\ gt_bboxes = [j \in 1..Len(gs) |-> GtKinds[gs[j]].b]
        /\ gt_labels = [j \in 1..Len(gs) |-> GtKinds[gs[j]].l]
    /\ center_radius2 = DefaultRadius2
    /\ candidate_topk \in TopkChoices
    /\ pc = "assign"
    /\ attempt = 0
    /\ ControlInit
    /\ TrainingIdle
    /\ LocalsInit

----------------------------------------------------------------------------
(* _assign and the functions it calls, one action per step *)

num_gt == Len(gt_labels)
num_valid == CountTrue(valid_mask)

\* an exception leaves _assign: its locals are gone.  exc is the exception
\* with, behind it, the one that was being handled when it was raised (its
\* __context__)
Raise(e) ==
    /\ pc' = "raised"
    /\ exc' = <<e>> \o exc
    /\ valid_mask' = << >>
    /\ is_in_boxes_and_center' = << >>
    /\ pair_wise_ious' = << >>
    /\ cls_cost' = << >>
    /\ cost_matrix' = << >>
    /\ dynamic_ks' = << >>
    /\ matching_matrix' = << >>
    /\ gt_idx' = 0
    /\ UNCHANGED <<training, inputs,
                   attempt, device, cache_released, outcome, result>>

GetInGtAndInCenterInfo ==
    /\ pc = "filter"
    /\ valid_mask' = IsInGtsOrCenters(priors, gt_bboxes, center_radius2)
    /\ is_in_boxes_and_center' =
           IsInBoxesAndCenters(priors, gt_bboxes, center_radius2)
    /\ pc' = "select"
    /\ UNCHANGED <<training, inputs,
                   attempt, device, cache_released, exc, outcome,
                   result, pair_wise_ious, cls_cost, cost_matrix, dynamic_ks,
                   matching_matrix, gt_idx>>

\* decoded_bboxes[valid_mask], pred_scores[valid_mask]: a mask of another
\* length than the tensor's first dimension is an IndexError
SelectValid ==
    /\ pc = "select"
    /\ IF Len(decoded_bboxes) # Len(valid_mask)
          \/ Len(pred_scores) # Len(valid_mask)
       THEN Raise("IndexError")
       ELSE /\ pc' = "pairwise"
            /\ UNCHANGED <<training, inputs,
                           attempt, device, cache_released, exc,
                           outcome, result, locals>>

\* bbox_overlaps gives each pair an IoU in [0, 1]; the classification cost
\* comes from the valid priors' scores and the labels.  The scores go to
\* sqrt_ as they are: the repeated tensor has one copy of a valid prior's
\* row per ground truth, and binary_cross_entropy refuses a row whose root
\* is not in [0, 1]
PairwiseCosts ==
    /\ pc = "pairwise"
    /\ LET valid_pred_scores == MaskSelect(pred_scores, valid_mask)
       IN  IF num_gt > 0
              /\ \E i \in 1..num_valid : ~BceInputOk(valid_pred_scores[i])
           THEN Raise("RuntimeError")
           ELSE /\ pair_wise_ious' \in
                       [1..num_valid -> [1..num_gt -> IouValues]]
                /\ cls_cost' =
                       [i \in 1..num_valid |->
                           [j \in 1..num_gt |->
                               ClsCost(valid_pred_scores[i], gt_labels[j])]]
                /\ pred_scores' = ScoresAfterSqrt(pred_scores, valid_mask)
                /\ pc' = "cost"
                /\ UNCHANGED <<training, priors, decoded_bboxes, gt_bboxes,
                               gt_labels, center_radius2, candidate_topk,
                               attempt, device, cache_released, exc,
                               outcome, result, valid_mask,
                               is_in_boxes_and_center, cost_matrix,
                               dynamic_ks, matching_matrix, gt_idx>>

BuildCost ==
    /\ pc = "cost"
    /\ cost_matrix' =
           CostMatrix(cls_cost, pair_wise_ious, is_in_boxes_and_center)
    /\ pc' = "topk"
    /\ UNCHANGED <<training, inputs,
                   attempt, device, cache_released, exc, outcome,
                   result, valid_mask, is_in_boxes_and_center,
                   pair_wise_ious, cls_cost, dynamic_ks, matching_matrix,
                   gt_idx>>

\* torch.topk(pair_wise_ious, self.candidate_topk, dim=0) is a RuntimeError
\* (selected index k out of range) when there are fewer rows than
\* candidate_topk; with no column the loop never binds pos_idx and the del
\* statement after it is an UnboundLocalError
TopkIous ==
    /\ pc = "topk"
    /\ IF candidate_topk > Len(cost_matrix)
       THEN Raise("RuntimeError")
       ELSE IF num_gt = 0
       THEN Raise("UnboundLocalError")
       ELSE /\ matching_matrix' =
                   [i \in 1..Len(cost_matrix) |-> [j \in 1..num_gt |-> 0]]
            /\ dynamic_ks' = DynamicKs(pair_wise_ious, num_gt, candidate_topk)
            /\ gt_idx' = 1
            /\ pc' = "loop"
            /\ UNCHANGED <<training, inputs,
                           attempt, device, cache_released, exc,
                           outcome, result, valid_mask,
                           is_in_boxes_and_center, pair_wise_ious, cls_cost,
                           cost_matrix>>

\* one turn of the loop over the ground truths
SelectForGt ==
    /\ pc = "loop"
    /\ \E pos_idx \in TopkSmallest(Column(cost_matrix, gt_idx),
                                   dynamic_ks[gt_idx]) :
           matching_matrix' = SetColumn(matching_matrix, gt_idx, pos_idx)
    /\ gt_idx' = gt_idx + 1
    /\ pc' = IF gt_idx = num_gt THEN "resolve" ELSE "loop"
    /\ UNCHANGED <<training, inputs,
                   attempt, device, cache_released, exc, outcome,
                   result, valid_mask, is_in_boxes_and_center,
                   pair_wise_ious, cls_cost, cost_matrix, dynamic_ks>>

ResolveConflicts ==
    /\ pc = "resolve"
    /\ \E cost_argmin \in [PriorMatchGtMask(matching_matrix) -> 1..num_gt] :
        /\ \A i \in DOMAIN cost_argmin :
               cost_argmin[i] \in ArgMins(cost_matrix[i])
        /\ matching_matrix' = Resolve(matching_matrix, cost_argmin)
    /\ pc' = "assemble"
    /\ UNCHANGED <<training, inputs,
                   attempt, device, cache_released, exc, outcome,
                   result, valid_mask, is_in_boxes_and_center,
                   pair_wise_ious, cls_cost, cost_matrix, dynamic_ks, gt_idx>>

\* the rest of dynamic_k_matching and the return of _assign: valid_mask is
\* narrowed in place and is itself part of the result
Assemble ==
    /\ pc = "assemble"
    /\ valid_mask' = NarrowMask(valid_mask, FgMaskInboxes(matching_matrix))
    /\ result' =
        [gt_matched_classes |->
             [r \in 1..Len(MatchedGtInds(matching_matrix)) |->
                 gt_labels[MatchedGtInds(matching_matrix)[r]]],
         valid_mask |-> valid_mask',
         pred_ious_this_matching |->
             PredIousThisMatching(matching_matrix, pair_wise_ious),
         matched_gt_inds |-> MatchedGtInds(matching_matrix),
         num_fg |-> CountTrue(FgMaskInboxes(matching_matrix)),
         device |-> device]
    /\ pc' = "ret"
    /\ UNCHANGED <<training, inputs,
                   attempt, device, cache_released, exc, outcome,
                   is_in_boxes_and_center, pair_wise_ious, cls_cost,
                   cost_matrix, dynamic_ks, matching_matrix, gt_idx>>

----------------------------------------------------------------------------
(* assign: the primary attempt and the retry on the CPU *)

PipelinePcs == {"filter", "select", "pairwise", "cost", "topk", "loop",
                "resolve", "assemble"}

\* what "except RuntimeError" catches: torch reports both an exhausted
\* memory and a bad argument (topk's k out of range) as a RuntimeError
IsRuntimeError(e) == e \in {"OutOfMemory", "RuntimeError"}

\* an allocation of the pipeline fails, on either device
OutOfMemory ==
    /\ pc \in PipelinePcs
    /\ Raise("OutOfMemory")

\* try: assign_results = self._assign(...)
Assign ==
    /\ pc = "assign"
    /\ attempt' = 1
    /\ pc' = "filter"
    /\ UNCHANGED <<training, inputs,
                   device, cache_released, exc, outcome, result,
                   locals>>

\* return assign_results
ReturnPrimary ==
    /\ pc = "ret"
    /\ attempt = 1
    /\ outcome' = "returned"
    /\ pc' = "done"
    /\ UNCHANGED <<training, inputs,
                   attempt, device, cache_released, exc, result,
                   locals>>

\* except RuntimeError: empty the cache, move the arguments to the CPU and
\* call _assign again
ExceptRuntimeError ==
    /\ pc = "raised"
    /\ attempt = 1
    /\ IsRuntimeError(Head(exc))
    /\ cache_released' = TRUE
    /\ device' = "cpu"
    /\ attempt' = 2
    /\ pc' = "filter"
    /\ UNCHANGED <<training, inputs, exc, outcome, result, locals>>

\* mutant: the retry's results stay on the CPU
ReturnFallbackOnCpu ==
    /\ pc = "ret"
    /\ attempt = 2
    /\ outcome' = "returned"
    /\ pc' = "done"
    /\ UNCHANGED <<training, inputs,
                   attempt, device, cache_released, exc, result,
                   locals>>

\* the retry's results go back to origin_device
ReturnFallback ==
    /\ pc = "ret"
    /\ attempt = 2
    /\ result' = [result EXCEPT !.device = OriginDevice]
    /\ outcome' = "returned"
    /\ pc' = "done"
    /\ UNCHANGED <<training, inputs,
                   attempt, device, cache_released, exc, locals>>

\* an exception that is no RuntimeError, or one raised inside the handler,
\* leaves assign
Propagate ==
    /\ pc = "raised"
    /\ attempt = 2 \/ ~IsRuntimeError(Head(exc))
    /\ outcome' = "raised"
    /\ pc' = "done"
    /\ UNCHANGED <<training, inputs,
                   attempt, device, cache_released, exc, result,
                   locals>>

Next ==
    \/ Assign
    \/ GetInGtAndInCenterInfo
    \/ SelectValid
    \/ PairwiseCosts
    \/ BuildCost
    \/ TopkIous
    \/ SelectForGt
    \/ ResolveConflicts
    \/ Assemble
    \/ OutOfMemory
    \/ ReturnPrimary
    \/ ExceptRuntimeError
    \/ ReturnFallback
    \/ Propagate

Spec == Init /\ [][Next]_vars

----------------------------------------------------------------------------
(* _assign from the cost matrix on, for any values of its locals *)

\* one (valid prior, ground truth) pair: its IoU, its classification cost
\* and whether the prior is in the box and in the centre of the ground truth
CellKinds ==
    { [iou |-> 1000, cls |-> 0,  both |-> TRUE],
      [iou |-> 500,  cls |-> 0,  both |-> TRUE],
      [iou |-> 500,  cls |-> 0,  both |-> FALSE],
      [iou |-> 1000, cls |-> 0,  both |-> FALSE] }

\* nv valid priors and inv others, the others after the first valid ones
InterleavedMask(nv, inv) ==
    LET pairs == IF nv < inv THEN nv ELSE inv
    IN  [i \in 1..(nv + inv) |->
            IF i <= 2 * pairs THEN i % 2 = 1 ELSE nv > inv]

InitMatch ==
    /\ \E nv \in 0..MaxValid, m \in 1..MaxCols, inv \in 0..MaxInvalid :
        /\ nv * m <= MaxCells
        /\ \E cells \in [1..nv -> [1..m -> CellKinds]] :
            /\ pair_wise_ious = [i \in 1..nv |-> [j \in 1..m |-> cells[i][j].iou]]
            /\ cls_cost = [i \in 1..nv |-> [j \in 1..m |-> cells[i][j].cls]]
            /\ is_in_boxes_and_center =
                   [i \in 1..nv |-> [j \in 1..m |-> cells[i][j].both]]
        /\ valid_mask = InterleavedMask(nv, inv)
        /\ gt_labels = [j \in 1..m |-> (j - 1) % NumClasses]
    /\ pred_scores = << >>
    /\ priors = << >>
    /\ decoded_bboxes = << >>
    /\ gt_bboxes = << >>
    /\ center_radius2 = DefaultRadius2
    /\ candidate_topk \in TopkChoices
    /\ pc = "cost"
    /\ attempt = 1
    /\ ControlInit
    /\ TrainingIdle
    /\ cost_matrix = << >>
    /\ dynamic_ks = << >>
    /\ matching_matrix = << >>
    /\ gt_idx = 0

NextMatch ==
    \/ BuildCost
    \/ TopkIous
    \/ SelectForGt
    \/ ResolveConflicts
    \/ Assemble

SpecMatch == InitMatch /\ [][NextMatch]_vars

----------------------------------------------------------------------------
(* get_in_gt_and_in_center_info alone, for any priors and ground truths *)

SeqsUpTo(n, max) == UNION {[1..len -> 1..n] : len \in 0..max}

InitFilter ==
    /\ \E ps \in SeqsUpTo(Len(PriorKinds), MaxPriors),
          gs \in SeqsUpTo(Len(GtKinds), MaxCols) :
        /\ priors = [i \in 1..Len(ps) |-> PriorKinds[ps[i]].p]
        /\ pred_scores = [i \in 1..Len(ps) |-> PriorKinds[ps[i]].s]
        /\ decoded_bboxes = [i \in 1..Len(ps) |-> i]
        /\ gt_bboxes = [j \in 1..Len(gs) |-> GtKinds[gs[j]].b]
        /\ gt_labels = [j \in 1..Len(gs) |-> GtKinds[gs[j]].l]
    /\ center_radius2 = DefaultRadius2
    /\ candidate_topk = DefaultTopk
    /\ pc = "filter"
    /\ attempt = 1
    /\ ControlInit
    /\ TrainingIdle
    /\ LocalsInit

NextFilter == GetInGtAndInCenterInfo

SpecFilter == InitFilter /\ [][NextFilter]_vars

----------------------------------------------------------------------------
(* A training run with CosineAnnealingWithStopLrUpdaterHook and            *)
(* YOLOXProcessHook registered.  The runner calls before_train_epoch at    *)
(* the start of every epoch and trains len(data_loader) iterations in it;  *)
(* the learning rate is asked for once an epoch when by_epoch, before      *)
(* every iteration otherwise.                                              *)

\* runner.max_iters of an epoch based run
max_iters == max_epochs * loader_len

\* get_lr: target_lr stands for itself; the annealed value is
\* annealing_cos(base_lr_, target_lr, num / den), kept as its factor; a
\* zero denominator is Python's ZeroDivisionError
GetLrValue ==
    LET no_aug_iter == loader_len * no_aug_epoch
        progress == IF by_epoch THEN epoch ELSE iter
        max_progress == IF by_epoch THEN max_epochs ELSE max_iters
        den == max_progress - warmup_iters - no_aug_iter
    IN  IF progress >= max_progress - no_aug_iter
        THEN [kind |-> "target", num |-> 0, den |-> 1]
        ELSE IF den = 0
             THEN [kind |-> "ZeroDivisionError", num |-> 0, den |-> 1]
             ELSE [kind |-> "cos", num |-> progress - warmup_iters,
                   den |-> den]

\* epoch + 1 == runner.max_epochs - self.no_aug_epoch
IsSwitchEpoch == epoch + 1 = max_epochs - no_aug_epoch

\* YOLOXProcessHook.before_train_epoch
BeforeTrainEpoch ==
    /\ hpc = "before_train_epoch"
    /\ IF IsSwitchEpoch
       THEN /\ enable_mosaic' = FALSE
            /\ enable_mixup' = FALSE
            /\ use_l1' = TRUE
       ELSE UNCHANGED flags
    /\ hpc' = "get_lr"
    /\ UNCHANGED <<inputs, control, locals, epoch, iter, max_epochs,
                   loader_len, hook_config, lr>>

\* CosineAnnealingWithStopLrUpdaterHook.get_lr
GetLr ==
    /\ hpc = "get_lr"
    /\ lr' = GetLrValue
    /\ hpc' = IF GetLrValue.kind = "ZeroDivisionError"
              THEN "crashed" ELSE "train_iter"
    /\ UNCHANGED <<inputs, control, locals, epoch, iter, max_epochs,
                   loader_len, hook_config, flags>>

\* one iteration is trained; the learning rate of the next one is asked
\* for when the hook is not by_epoch
TrainIter ==
    /\ hpc = "train_iter"
    /\ iter' = iter + 1
    /\ hpc' = IF (iter + 1) % loader_len = 0 THEN "after_train_epoch"
              ELSE IF by_epoch THEN "train_iter" ELSE "get_lr"
    /\ UNCHANGED <<inputs, control, locals, epoch, max_epochs, loader_len,
                   hook_config, lr, flags>>

\* the epoch is over
AfterTrainEpoch ==
    /\ hpc = "after_train_epoch"
    /\ epoch' = epoch + 1
    /\ hpc' = IF epoch + 1 < max_epochs THEN "before_train_epoch"
              ELSE "finished"
    /\ UNCHANGED <<inputs, control, locals, iter, max_epochs, loader_len,
                   hook_config, lr, flags>>

\* a run of max_epochs epochs, started at epoch 0 or resumed at a later one
InitTrain ==
    /\ max_epochs \in 1..MaxEpochs
    /\ loader_len \in 1..MaxLoaderLen
    /\ no_aug_epoch \in 0..MaxNoAug
    /\ by_epoch \in BOOLEAN
    /\ warmup_iters \in 0..MaxWarmup
    /\ epoch \in 0..(max_epochs - 1)
    /\ iter = epoch * loader_len
    /\ hpc = "before_train_epoch"
    /\ lr = NoLr
    /\ enable_mosaic \in BOOLEAN
    /\ enable_mixup \in BOOLEAN
    /\ use_l1 \in BOOLEAN
    /\ pred_scores = << >>
    /\ priors = << >>
    /\ decoded_bboxes = << >>
    /\ gt_bboxes = << >>
    /\ gt_labels = << >>
    /\ center_radius2 = DefaultRadius2
    /\ candidate_topk = DefaultTopk
    /\ pc = "idle"
    /\ attempt = 0
    /\ ControlInit
    /\ LocalsInit

NextTrain ==
    \/ BeforeTrainEpoch
    \/ GetLr
    \/ TrainIter
    \/ AfterTrainEpoch

SpecTrain == InitTrain /\ [][NextTrain]_vars

----------------------------------------------------------------------------
(* Properties *)

AllFalse(m) == \A i \in 1..Len(m) : ~m[i]

WellFormed == Len(pred_scores) = Len(priors)

\* no allocation has failed
NoOom == \A k \in 1..Len(exc) : exc[k] # "OutOfMemory"

\* C1: a call of assign with no ground truth (and well-formed inputs, no
\* allocation failing) returns num_foreground = 0, empty matched_classes,
\* matched_ious and matched_gt_index, and an all-false valid_mask of
\* length N.
C1_ZeroGtReturnsEmpty ==
    (pc = "done" /\ num_gt = 0 /\ WellFormed /\ NoOom) =>
        /\ outcome = "returned"
        /\ result.num_fg = 0
        /\ result.gt_matched_classes = << >>
        /\ result.pred_ious_this_matching = << >>
        /\ result.matched_gt_inds = << >>
        /\ Len(result.valid_mask) = Len(priors)
        /\ AllFalse(result.valid_mask)

\* C2: when the primary attempt fails for another reason than resource
\* exhaustion, assign reports the failure at once: no second run of the
\* pipeline, no cache released, no input moved.
C2_OnlyExhaustionIsRetried ==
    [][(pc = "raised" /\ attempt = 1 /\ Head(exc) # "OutOfMemory") =>
           /\ pc' = "done"
           /\ outcome' = "raised"
           /\ attempt' = 1
           /\ cache_released' = cache_released
           /\ device' = device]_vars

\* C3: one call of assign runs the pipeline at most twice, first on the
\* primary device and then on the CPU; resource exhaustion in the first run
\* leads to exactly one run on the CPU; a failure of that run leaves assign
\* with no third run; its success returns the result moved back to the
\* original device.
C3_AtMostTwoAttempts ==
    [][/\ attempt' \in {attempt, attempt + 1}
       /\ attempt' <= 2
       /\ attempt' = 1 => device' = OriginDevice
       /\ attempt' = 2 => device' = "cpu"
       /\ (pc = "raised" /\ attempt = 1 /\ Head(exc) = "OutOfMemory") =>
              (attempt' = 2 /\ pc' = "filter" /\ cache_released')
       /\ (pc = "raised" /\ attempt = 2) =>
              (pc' = "done" /\ outcome' = "raised" /\ attempt' = 2)
       /\ (pc = "ret" /\ attempt = 2) =>
              /\ pc' = "done"
              /\ outcome' = "returned"
              /\ result' = [result EXCEPT !.device = OriginDevice]
       /\ pc = "done" => UNCHANGED vars]_vars

\* C3 witness: the first run failed, the run on the CPU succeeded and its
\* result is back on the original device.
C3_Witness ==
    /\ pc = "done"
    /\ attempt = 2
    /\ outcome = "returned"
    /\ cache_released
    /\ result.device = OriginDevice
    /\ result.num_fg >= 1

ColumnSum(m, j) == SumSeq(Column(m, j))

\* C4: after conflict resolution every row of the matching matrix sums to
\* 0 or 1.
C4_RowSumsAtMostOne ==
    pc \in {"assemble", "ret"} =>
        \A i \in 1..Len(matching_matrix) :
            RowSum(matching_matrix, i) \in {0, 1}

\* C4 witness: resolution took a prior away from a ground truth that had
\* selected it.
C4_Witness ==
    /\ pc = "assemble"
    /\ \E j \in 1..num_gt : ColumnSum(matching_matrix, j) < dynamic_ks[j]

\* C5: with at least one valid prior and one ground truth the dynamic-k
\* step does not fail, also when there are fewer valid priors than
\* candidate_topk, and gives each ground truth the k of the
\* min(candidate_topk, Nv) largest IoUs of its column, 1 <= k <= Nv.
C5_DynamicKFromCappedTopk ==
    [][(pc = "topk" /\ Len(cost_matrix) >= 1 /\ num_gt >= 1) =>
           /\ pc' = "loop"
           /\ Len(dynamic_ks') = num_gt
           /\ \A j \in 1..num_gt :
                  LET nv == Len(cost_matrix)
                      n == IF candidate_topk < nv THEN candidate_topk ELSE nv
                  IN  /\ dynamic_ks'[j] = DynamicK(Column(pair_wise_ious, j), n)
                      /\ 1 <= dynamic_ks'[j]
                      /\ dynamic_ks'[j] <= nv]_vars

Plausible(i, j) == is_in_boxes_and_center[i][j]

\* C6: the top-k selection never sets to 1 a pair whose in_box_and_center
\* is false, and no such pair is in the returned assignment.
C6_ImplausibleNeverSelected ==
    pc \in {"loop", "resolve", "assemble", "ret"} =>
        \A i \in 1..Len(matching_matrix) : \A j \in 1..num_gt :
            matching_matrix[i][j] = 1 => Plausible(i, j)

\* C6 as amended: every pair whose in_box_and_center is false costs more
\* than every pair for which it is true, so the top-k selection for ground
\* truth j takes such a pair only together with every valid prior that is
\* in the box and in the centre of j (j has fewer than k_j of them).
C6_ImplausibleSelectedLast ==
    pc \in {"loop", "resolve"} =>
        /\ \A i, r \in 1..Len(cost_matrix) : \A j, c \in 1..num_gt :
               (~Plausible(i, j) /\ Plausible(r, c)) =>
                   cost_matrix[i][j] > cost_matrix[r][c]
        /\ \A j \in 1..(gt_idx - 1) : \A i \in 1..Len(matching_matrix) :
               (matching_matrix[i][j] = 1 /\ ~Plausible(i, j)) =>
                   /\ \A r \in 1..Len(matching_matrix) :
                          Plausible(r, j) => matching_matrix[r][j] = 1
                   /\ Cardinality({r \in 1..Len(matching_matrix) :
                                      Plausible(r, j)}) < dynamic_ks[j]

\* C6 witness: a ground truth with one prior in its box and centre and
\* k = 2 has taken a second prior that is not.
C6_Witness ==
    /\ pc = "resolve"
    /\ \E j \in 1..num_gt : \E i, r \in 1..Len(matching_matrix) :
        /\ matching_matrix[i][j] = 1 /\ ~Plausible(i, j)
        /\ matching_matrix[r][j] = 1 /\ Plausible(r, j)

OneHotRow(j) == [c \in 1..num_gt |-> IF c = j THEN 1 ELSE 0]

\* C7: conflict resolution gives a prior selected for several ground truths
\* to the one of least cost among those that selected it, and leaves every
\* other row as it was.  (Stated for the rows whose least cost is in one
\* column only, where torch.min has a single answer.)
C7_CheapestClaimantWins ==
    [][pc = "resolve" =>
           \A i \in 1..Len(matching_matrix) :
               IF RowSum(matching_matrix, i) > 1
               THEN Cardinality(ArgMins(cost_matrix[i])) = 1 =>
                    \E j \in 1..num_gt :
                        /\ matching_matrix[i][j] = 1
                        /\ \A c \in 1..num_gt :
                               matching_matrix[i][c] = 1 =>
                                   cost_matrix[i][j] <= cost_matrix[i][c]
                        /\ matching_matrix'[i] = OneHotRow(j)
               ELSE matching_matrix'[i] = matching_matrix[i]]_vars

\* C7 as amended: conflict resolution gives a prior selected for several
\* ground truths to exactly one ground truth, one of least cost in the
\* prior's whole row, which may be a ground truth that had not selected it;
\* every other row stays as it was.
C7_CheapestOfRowWins ==
    [][pc = "resolve" =>
           /\ Len(matching_matrix') = Len(matching_matrix)
           /\ \A i \in 1..Len(matching_matrix) :
               IF RowSum(matching_matrix, i) > 1
               THEN \E j \in 1..num_gt :
                       /\ \A c \in 1..num_gt :
                              cost_matrix[i][j] <= cost_matrix[i][c]
                       /\ matching_matrix'[i] = OneHotRow(j)
               ELSE matching_matrix'[i] = matching_matrix[i]]_vars

\* C7 witness: after resolution a ground truth holds more priors than the
\* k it selected: a prior two others had selected went to it.
C7_Witness ==
    /\ pc = "assemble"
    /\ \E j \in 1..num_gt : ColumnSum(matching_matrix, j) > dynamic_ks[j]

\* C8: the step that builds the result keeps valid_mask at length N and
\* leaves it true exactly at the valid priors whose matching row sums to 1;
\* the number of true entries is num_foreground, which is the length of
\* matched_classes, matched_ious and matched_gt_index, and
\* num_foreground <= Nv <= N.
C8_MaskMarksForeground ==
    [][pc = "assemble" =>
           /\ Len(valid_mask') = Len(valid_mask)
           /\ \A i \in 1..Len(valid_mask) :
                  valid_mask'[i] <=>
                      /\ valid_mask[i]
                      /\ RowSum(matching_matrix,
                                Cardinality({r \in 1..i : valid_mask[r]})) = 1
           /\ result'.valid_mask = valid_mask'
           /\ result'.num_fg = Cardinality({i \in 1..Len(valid_mask') :
                                               valid_mask'[i]})
           /\ Len(result'.gt_matched_classes) = result'.num_fg
           /\ Len(result'.pred_ious_this_matching) = result'.num_fg
           /\ Len(result'.matched_gt_inds) = result'.num_fg
           /\ result'.num_fg <= Len(matching_matrix)
           /\ Len(matching_matrix) =
                  Cardinality({i \in 1..Len(valid_mask) : valid_mask[i]})
           /\ Len(matching_matrix) <= Len(valid_mask)]_vars

\* C8 witness: a result with a foreground prior, a valid prior that is not
\* foreground and a prior that was not valid.
C8_Witness ==
    /\ pc = "ret"
    /\ result.num_fg >= 1
    /\ result.num_fg < Len(matching_matrix)
    /\ Len(matching_matrix) < Len(result.valid_mask)
    /\ \E i \in 2..Len(result.valid_mask) :
           result.valid_mask[i] /\ ~result.valid_mask[i - 1]

\* all four margins of the point (x2, y2)/2 to the box (l2, t2, r2, b2)/2
\* strictly positive
StrictlyInside(x2, y2, l2, t2, r2, b2) ==
    x2 - l2 > 0 /\ y2 - t2 > 0 /\ r2 - x2 > 0 /\ b2 - y2 > 0

InBoxOf(i, j) ==
    StrictlyInside(2 * priors[i][1], 2 * priors[i][2],
                   2 * gt_bboxes[j][1], 2 * gt_bboxes[j][2],
                   2 * gt_bboxes[j][3], 2 * gt_bboxes[j][4])

InCenterOf(i, j) ==
    LET cx2 == gt_bboxes[j][1] + gt_bboxes[j][3]
        cy2 == gt_bboxes[j][2] + gt_bboxes[j][4]
        hw2 == center_radius2 * priors[i][3]
        hh2 == center_radius2 * priors[i][4]
    IN  StrictlyInside(2 * priors[i][1], 2 * priors[i][2],
                       cx2 - hw2, cy2 - hh2, cx2 + hw2, cy2 + hh2)

\* C9: valid_mask[i] is true iff prior i is in the box of some ground truth
\* or in the centre region of some ground truth; the second result has one
\* row per valid prior, in order, true at j iff the prior is in the box and
\* in the centre region of that same ground truth j.
C9_FilterMarksBoxOrCenter ==
    pc = "select" =>
        /\ Len(valid_mask) = Len(priors)
        /\ \A i \in 1..Len(priors) :
               valid_mask[i] <=>
                   \/ \E j \in 1..Len(gt_bboxes) : InBoxOf(i, j)
                   \/ \E j \in 1..Len(gt_bboxes) : InCenterOf(i, j)
        /\ Len(is_in_boxes_and_center) =
               Cardinality({i \in 1..Len(priors) : valid_mask[i]})
        /\ \A i \in 1..Len(priors) :
               valid_mask[i] =>
                   LET row == is_in_boxes_and_center[
                                  Cardinality({r \in 1..i : valid_mask[r]})]
                   IN  /\ Len(row) = Len(gt_bboxes)
                       /\ \A j \in 1..Len(gt_bboxes) :
                              row[j] <=> (InBoxOf(i, j) /\ InCenterOf(i, j))

\* C9 witness: a prior after an invalid one that is in the box of one
\* ground truth and in the centre region of another, but of no ground
\* truth both.
C9_Witness ==
    /\ pc = "select"
    /\ \E i \in 2..Len(priors) :
        /\ ~valid_mask[i - 1]
        /\ \E j \in 1..Len(gt_bboxes) : InBoxOf(i, j)
        /\ \E j \in 1..Len(gt_bboxes) : InCenterOf(i, j)
        /\ \A j \in 1..Len(gt_bboxes) : ~(InBoxOf(i, j) /\ InCenterOf(i, j))

\* the scenario of C10: one ground truth (10,10,50,50) of label 2, priors
\* centred at (20,20), (30,30), (100,100) with stride 8, center_radius 2.5
Scenario ==
    /\ priors = <<PriorKinds[1].p, PriorKinds[2].p, PriorKinds[3].p>>
    /\ gt_bboxes = <<GtKinds[1].b>>
    /\ gt_labels = <<2>>
    /\ center_radius2 = DefaultRadius2
    /\ WellFormed

\* C10: in the scenario, with any candidate_topk >= 2 (the default 10
\* included), assign succeeds, the valid mask computed is
\* [true, true, false], num_foreground is the dynamic k of the ground truth
\* (1 or 2) and every matched class is 2.
C10_ScenarioSucceeds ==
    (Scenario /\ candidate_topk >= 2) =>
        /\ pc = "select" => valid_mask = <<TRUE, TRUE, FALSE>>
        /\ pc \in {"loop", "resolve", "assemble", "ret"} =>
               /\ Len(pair_wise_ious) = 2
               /\ dynamic_ks = <<DynamicK(Column(pair_wise_ious, 1), 2)>>
        /\ (pc = "done" /\ NoOom) =>
               /\ outcome = "returned"
               /\ result.num_fg \in {1, 2}
               /\ \A r \in 1..Len(result.gt_matched_classes) :
                      result.gt_matched_classes[r] = 2
\* a valid prior has a negative class score
NegativeValidScore ==
    \E i \in 1..Len(priors) :
        /\ IsInGtsOrCenters(priors, gt_bboxes, center_radius2)[i]
        /\ \E k \in 1..NumClasses : pred_scores[i][k] < 0

\* C11: when a class score of a valid prior is negative, the cost
\* computation clamps it to zero before the square root and assign
\* completes normally (here: well-formed inputs, no allocation failing and
\* at least candidate_topk valid priors); a negative score is never an
\* error.
C11_NegativeScoreClamped ==
    (/\ pc = "done"
     /\ WellFormed
     /\ NoOom
     /\ NegativeValidScore
     /\ candidate_topk
            <= CountTrue(IsInGtsOrCenters(priors, gt_bboxes, center_radius2)))
        => outcome = "returned"
\* the run is in its last no_aug_epoch epochs
InLastEpochs == epoch >= max_epochs - no_aug_epoch

\* C12: get_lr returns the fixed target learning rate while the run is in
\* its last no_aug_epoch epochs and the cosine-annealed value before that,
\* whether the hook counts progress in epochs (by_epoch) or in iterations.
C12_FixedLrInLastEpochs ==
    hpc = "train_iter" =>
        lr.kind = (IF InLastEpochs THEN "target" ELSE "cos")
\* an epoch is being trained: before_train_epoch has run for it
Training == hpc \in {"get_lr", "train_iter", "after_train_epoch"}

FlagsOff == ~enable_mosaic /\ ~enable_mixup /\ use_l1

\* C13: in a run of max_epochs epochs, started or resumed at any epoch,
\* every epoch e with e + 1 >= max_epochs - no_aug_epoch trains with
\* enable_mosaic = False, enable_mixup = False and use_l1 = True; the hook
\* changes none of the three flags in an earlier epoch and never sets them
\* back.
C13_LastEpochsWithoutAugmentation ==
    [][/\ (Training' /\ epoch' + 1 >= max_epochs' - no_aug_epoch')
              => FlagsOff'
       /\ (epoch + 1 < max_epochs - no_aug_epoch) => flags' = flags
       /\ FlagsOff => FlagsOff']_vars
\* C14: conflict resolution only removes matches: every entry equal to 1
\* after it was set to 1 by the top-k selection, so each ground truth j
\* ends with at most k_j matched priors and no prior goes to a ground truth
\* that had not selected it.
C14_ResolutionOnlyRemoves ==
    [][pc = "resolve" =>
           /\ \A i \in 1..Len(matching_matrix) : \A j \in 1..num_gt :
                  matching_matrix'[i][j] = 1 => matching_matrix[i][j] = 1
           /\ \A j \in 1..num_gt :
                  ColumnSum(matching_matrix', j) <= dynamic_ks[j]]_vars

\* the priors selected for more than one ground truth but not for j
ConflictsNotOf(m, j) == {i \in PriorMatchGtMask(m) : m[i][j] = 0}

\* C14 as amended: an entry equal to 1 after conflict resolution was set
\* by the top-k selection, or it is an entry of least cost in the row of a
\* prior selected for more than one ground truth; a ground truth j ends
\* with at most k_j matched priors and the priors in conflict that it had
\* not selected.
C14_ResolutionAddsOnlyRowMinima ==
    [][pc = "resolve" =>
           /\ \A i \in 1..Len(matching_matrix) : \A j \in 1..num_gt :
                  matching_matrix'[i][j] = 1 =>
                      \/ matching_matrix[i][j] = 1
                      \/ /\ RowSum(matching_matrix, i) > 1
                         /\ \A c \in 1..num_gt :
                                cost_matrix[i][j] <= cost_matrix[i][c]
           /\ \A j \in 1..num_gt :
                  ColumnSum(matching_matrix', j) <=
                      dynamic_ks[j]
                      + Cardinality(ConflictsNotOf(matching_matrix, j))]_vars

\* C14 witness: after resolution a prior is matched to the one ground
\* truth of least cost in its row, for which at least k other priors cost
\* strictly less, so the top-k selection had not set that entry.
C14_Witness ==
    /\ pc = "assemble"
    /\ \E i \in 1..Len(matching_matrix) : \E j \in 1..num_gt :
        /\ matching_matrix[i][j] = 1
        /\ ArgMins(cost_matrix[i]) = {j}
        /\ Cardinality({r \in 1..Len(cost_matrix) :
                            cost_matrix[r][j] < cost_matrix[i][j]})
               >= dynamic_ks[j]
\* C15: a call of assign, on the primary path or through the retry on the
\* CPU, returning or raising, leaves pred_scores, priors, decoded_bboxes,
\* gt_bboxes, gt_labels, center_radius and candidate_topk as they were: no
\* step of the call changes any of them.
C15_InputsUnchanged ==
    [][inputs' = inputs]_vars

\* C15 witness: the retry on the CPU has returned matches for a call in
\* which a valid prior has scores that their square root changes.
C15_Witness ==
    /\ pc = "done"
    /\ attempt = 2
    /\ outcome = "returned"
    /\ result.num_fg > 0
    /\ \E i \in 1..Len(priors) :
        /\ IsInGtsOrCenters(priors, gt_bboxes, center_radius2)[i]
        /\ \E k \in 1..NumClasses :
               SqrtScore(pred_scores[i][k]) # pred_scores[i][k]
====
